---- MODULE Spec2Model ----
(***************************************************************************)
(* star: a tar archive / compression command line tool (src/src/main.rs).  *)
(*                                                                         *)
(* Strings and paths are sequences of one-character strings, so that       *)
(* to_lowercase, Path::extension, Path::file_name, PathBuf::push and       *)
(* target_is_dir are computed character by character as the code does.     *)
(* An Option<T> is a sequence of length 0 (None) or 1 (Some(x)).           *)
(*                                                                         *)
(* Scope: a unix build (cfg!(windows) is false); file names are valid      *)
(* UTF-8; failures of the operating system (permissions, full disk) and    *)
(* of the codec libraries are not modelled, except where a handler reads   *)
(* the modelled file state itself.                                         *)
(***************************************************************************)
EXTENDS Naturals, Sequences, FiniteSets

VARIABLES
    subcommand,        \* "c" or "x": the subcommand clap matched
    format_flag,       \* Option<&str>: the value of -f
    archive,           \* the archive FILE_PATH argument
    compression_only,  \* the -c flag
    pc,                \* position of the invocation
    format_type,       \* Option<&'static str>: result of check_format_type
    disk,              \* what is stored at the archive path
    consumed,          \* tokens taken from append_files so far
    paths,             \* Option: the pending source group (its glob patterns, lazily chained)
    from,              \* accumulating additional sources
    to,                \* awaiting the rename target
    branch,            \* the branch of the token loop body executed last
    ar,                \* entries written to the tar builder
    calls,             \* the invocations of append: source list and target
    exit,              \* "running", "ok" (status 0) or "panic" (status 101)
    diag,              \* Option: the diagnostic printed
    src,               \* append's src parameter (matched paths)
    target             \* append's target parameter

vars == <<subcommand, format_flag, archive, compression_only, pc, format_type,
          disk, consumed, paths, from, to, branch, ar, calls, exit, diag, src, target>>

(***************************************************************************)
(* Bounds of the model.                                                    *)
(***************************************************************************)
MaxTokens == 5
MaxPathLen == 4
MaxNameLen == 3

(***************************************************************************)
(* Options and strings.                                                    *)
(***************************************************************************)
None == <<>>
Some(x) == <<x>>

Upper == <<"A","B","C","D","E","F","G","H","I","J","K","L","M",
           "N","O","P","Q","R","S","T","U","V","W","X","Y","Z">>
Lower == <<"a","b","c","d","e","f","g","h","i","j","k","l","m",
           "n","o","p","q","r","s","t","u","v","w","x","y","z">>

LowerMap == [c \in {Upper[i] : i \in 1..26} |-> Lower[CHOOSE i \in 1..26 : Upper[i] = c]]

LowerChar(c) == IF c \in DOMAIN LowerMap THEN LowerMap[c] ELSE c

to_lowercase(s) == [i \in 1..Len(s) |-> LowerChar(s[i])]

ends_with(s, c) == Len(s) > 0 /\ s[Len(s)] = c

RECURSIVE SeqsUpTo(_, _)
SeqsUpTo(A, n) ==
    IF n = 0 THEN {<<>>}
    ELSE LET shorter == SeqsUpTo(A, n - 1)
         IN shorter \cup {Append(s, c) : s \in {t \in shorter : Len(t) = n - 1}, c \in A}

IsPrefix(s, t) == Len(s) <= Len(t) /\ SubSeq(t, 1, Len(s)) = s

(***************************************************************************)
(* std::path as the code uses it.                                          *)
(***************************************************************************)
RECURSIVE Split(_)
Split(p) ==
    IF p = <<>> THEN << <<>> >>
    ELSE LET r == Split(Tail(p))
         IN IF Head(p) = "/" THEN << <<>> >> \o r
            ELSE << <<Head(p)>> \o r[1] >> \o Tail(r)

IsNormal(seg) == Len(seg) > 0 /\ seg # <<".">>

\* Path::components(): empty segments and "." segments do not count (a leading
\* "." is a CurDir component, which is not Normal either).
Normal(p) == SelectSeq(Split(p), IsNormal)

\* Path::file_name(): the last component if it is Normal; None for "..", for
\* the root and for the empty path.
file_name(p) ==
    LET n == Normal(p)
    IN IF Len(n) = 0 THEN None
       ELSE IF n[Len(n)] = <<".", ".">> THEN None
       ELSE Some(n[Len(n)])

Max(S) == CHOOSE m \in S : \A k \in S : k <= m

\* Path::extension(): None without a file name, without a "." in it, or when
\* its only "." is its first character; else what follows the last ".".
extension(p) ==
    LET f == file_name(p)
    IN IF Len(f) = 0 THEN None
       ELSE LET name == f[1]
                dots == {i \in 1..Len(name) : name[i] = "."}
            IN IF dots = {} THEN None
               ELSE LET last == Max(dots)
                        before == SubSeq(name, 1, last - 1)
                        after == SubSeq(name, last + 1, Len(name))
                    IN IF Len(before) = 0 THEN None ELSE Some(after)

\* PathBuf::push(name): an absolute name replaces the buffer; otherwise a
\* separator is added unless the buffer is empty or already ends with one.
push(buf, name) ==
    IF Len(name) > 0 /\ name[1] = "/" THEN name
    ELSE IF Len(buf) > 0 /\ ~ends_with(buf, "/") THEN buf \o <<"/">> \o name
    ELSE buf \o name

cfg_windows == FALSE

target_is_dir(path) ==
    IF Len(path) = 0 THEN TRUE
    ELSE IF ends_with(path, "/") THEN TRUE
    ELSE IF cfg_windows /\ ends_with(path, "\\") THEN TRUE
    ELSE FALSE

(***************************************************************************)
(* check_format_type                                                       *)
(***************************************************************************)
s_xz == <<"x","z">>
s_gzip == <<"g","z","i","p">>
s_gz == <<"g","z">>
s_tgz == <<"t","g","z">>
s_z == <<"z">>
s_tar == <<"t","a","r">>
s_zst == <<"z","s","t">>
s_zstd == <<"z","s","t","d">>

Codecs == {"xz", "gzip", "tar", "zstd"}

format_table(t) ==
    IF t = s_xz THEN Some("xz")
    ELSE IF t = s_gzip \/ t = s_gz \/ t = s_tgz \/ t = s_z THEN Some("gzip")
    ELSE IF t = s_tar THEN Some("tar")
    ELSE IF t = s_zst \/ t = s_zstd THEN Some("zstd")
    ELSE None

\* A mutant: an unrecognised explicit format falls back to the extension.
check_format_type_fallback(flag, path) ==
    LET byFlag == IF Len(flag) = 0 THEN None ELSE format_table(to_lowercase(flag[1]))
        ext == extension(path)
    IN IF Len(byFlag) > 0 THEN byFlag
       ELSE IF Len(ext) = 0 THEN None
       ELSE format_table(to_lowercase(ext[1]))

check_format_type(flag, path) ==
    LET t == IF Len(flag) > 0 THEN flag ELSE extension(path)
    IN IF Len(t) = 0 THEN None
       ELSE format_table(to_lowercase(t[1]))

(***************************************************************************)
(* The command line and the file system the invocation runs against.       *)
(***************************************************************************)
t_from == <<"f","r","o","m">>
t_to == <<"t","o">>
t_To == <<"T","o">>
t_a == <<"a">>
t_d == <<"d">>
t_star == <<"*">>
t_root == <<"/">>

\* The values an APPEND argument takes in the model: the keywords (one in
\* mixed case) and three other tokens, each a glob pattern or a rename target
\* by its place: "a" (as a target, a file name), "*" and "/" (as a target,
\* directory-like).
Tokens == {t_from, t_to, t_To, t_a, t_star, t_root}

\* The examples of the crate documentation, over the model's tokens:
\*   star c foo.xz Cargo.toml to foo/
\*   star c foo.xz from ./**/*.dll to lib/ from ./**/*.exe to bin/
\*   star c foo.xz Cargo.toml to foo/Bar.toml
DocExamples ==
    { <<t_a, t_to, t_root>>,
      <<t_from, t_star, t_to, t_root, t_from, t_a, t_to, t_root>>,
      <<t_a, t_to, t_a>> }

a_xz == <<"o",".","x","z">>
a_tar == <<"o",".","t","a","r">>
a_zst == <<"o",".","z","s","t">>
a_none == <<"o">>
a_dotxz == <<".","x","z">>

\* -f is restricted by clap to the lower-case names of its possible_values.
PossibleValues == {s_xz, s_tar, s_zst, s_zstd, s_gzip, s_gz, s_z, s_tgz}

\* The (-f, FILE_PATH) pairs of the model: every codec, by flag and by
\* extension, and two paths without an extension.
CommandLines ==
    { <<None, a_xz>>, <<None, a_tar>>, <<None, a_zst>>, <<Some(s_gz), a_none>>,
      <<None, a_none>>, <<None, a_dotxz>> }

\* The working directory holds the file "a" and the directory "d"; glob::glob
\* yields its matches in alphabetical order, never with a trailing separator,
\* and yields the root for the pattern "/".
glob(pattern) ==
    IF pattern = t_star THEN <<t_a, t_d>>
    ELSE IF pattern = t_a THEN <<t_a>>
    ELSE IF pattern = t_d \/ pattern = <<"d","/">> THEN <<t_d>>
    ELSE IF pattern = t_root THEN <<t_root>>
    ELSE <<>>

is_dir(path) == path = t_d \/ path = t_root

\* Iterator::chain over the glob iterators of a source group, in order.
RECURSIVE chain(_)
chain(pats) ==
    IF Len(pats) = 0 THEN <<>>
    ELSE glob(Head(pats)) \o chain(Tail(pats))

(***************************************************************************)
(* append                                                                  *)
(***************************************************************************)
\* The entry name append computes for one matched path: None when
\* path.file_name().unwrap() panics.
entry_name(path, tgt) ==
    LET t == IF Len(tgt) > 0 THEN tgt[1] ELSE path
    IN IF target_is_dir(t)
       THEN LET fn == file_name(path)
            IN IF Len(fn) = 0 THEN None ELSE Some(push(t, fn[1]))
       ELSE Some(t)

\* The tar builder after append(ar, src, target); ok is FALSE when it panicked,
\* the entries written before the panic staying in the builder.
RECURSIVE append(_, _, _)
append(builder, matched, tgt) ==
    IF Len(matched) = 0 THEN [ar |-> builder, ok |-> TRUE]
    ELSE LET path == Head(matched)
             name == entry_name(path, tgt)
         IN IF Len(name) = 0 THEN [ar |-> builder, ok |-> FALSE]
            ELSE append(Append(builder,
                               [kind |-> IF is_dir(path) THEN "dir" ELSE "file",
                                path |-> path, name |-> name[1]]),
                        Tail(matched), tgt)

(***************************************************************************)
(* The invocation: main, create, extract.                                  *)
(***************************************************************************)
inputs == <<subcommand, format_flag, archive, compression_only>>
appendArgs == <<src, target>>
parser == <<consumed, paths, from, to, branch>>
writer == <<ar, calls>>

Init ==
    /\ subcommand \in {"c", "x"}
    /\ \E cl \in CommandLines : format_flag = cl[1] /\ archive = cl[2]
    /\ compression_only \in BOOLEAN
    /\ disk \in {"absent", "old"}
    /\ pc = "main"
    /\ format_type = None
    /\ consumed = <<>>
    /\ paths = None
    /\ from = FALSE
    /\ to = FALSE
    /\ branch = "none"
    /\ ar = <<>>
    /\ calls = <<>>
    /\ exit = "running"
    /\ diag = None
    /\ src = <<>>
    /\ target = None

Panic(msg) ==
    /\ exit' = "panic"
    /\ diag' = Some(msg)
    /\ pc' = "exit"

Main ==
    /\ pc = "main"
    /\ LET ft == check_format_type(format_flag, archive)
       IN IF Len(ft) = 0
          THEN /\ diag' = Some("unknown format")
               /\ exit' = "ok"
               /\ pc' = "exit"
               /\ UNCHANGED format_type
          ELSE /\ format_type' = ft
               /\ pc' = IF subcommand = "c" THEN "create" ELSE "extract"
               /\ UNCHANGED <<exit, diag>>
    /\ UNCHANGED <<inputs, disk, parser, writer, appendArgs>>

\* A mutant: the archive file is created without the existence check.
Create_no_check ==
    /\ pc = "create"
    /\ disk' = "empty"
    /\ pc' = IF compression_only THEN "compress" ELSE "loop"
    /\ UNCHANGED <<exit, diag>>
    /\ UNCHANGED <<inputs, format_type, parser, writer, appendArgs>>

\* create, up to the encoder: the existence check and File::create.
Create ==
    /\ pc = "create"
    /\ IF disk # "absent"
       THEN /\ Panic("file path exists")
            /\ UNCHANGED disk
       ELSE /\ disk' = "empty"
            /\ pc' = IF compression_only THEN "compress" ELSE "loop"
            /\ UNCHANGED <<exit, diag>>
    /\ UNCHANGED <<inputs, format_type, parser, writer, appendArgs>>

\* create in compression-only mode; params are the APPEND arguments, of which
\* the code looks at the first and at whether there is a second.
CompressOnly ==
    /\ pc = "compress"
    /\ \E params \in {s \in SeqsUpTo(Tokens, 2) : Len(s) >= 1} :
          /\ consumed' = params
          /\ IF Len(params) > 1
             THEN /\ Panic("more than one file")
                  /\ UNCHANGED disk
             ELSE IF Len(glob(params[1])) = 0
             THEN /\ Panic("source file no exists")
                  /\ UNCHANGED disk
             ELSE /\ disk' = "compressed"
                  /\ exit' = "ok"
                  /\ pc' = "exit"
                  /\ UNCHANGED diag
    /\ UNCHANGED <<inputs, format_type, paths, from, to, branch, writer, appendArgs>>

(***************************************************************************)
(* create in archive mode: the loop over the APPEND arguments.  The        *)
(* arguments come from an iterator; each iteration takes the next one.     *)
(* The length of the command line is bounded by MaxTokens, the examples    *)
(* of the crate documentation being admitted whole.                        *)
(***************************************************************************)
CanTake(tok) ==
    \/ Len(consumed) < MaxTokens
    \/ \E e \in DocExamples : IsPrefix(Append(consumed, tok), e)

Take(tok, name) ==
    /\ pc = "loop"
    /\ CanTake(tok)
    /\ consumed' = Append(consumed, tok)
    /\ branch' = name

\* What both flushes do: append(&mut ar, paths.take().unwrap(), tgt).
Flush(tgt) ==
    IF Len(paths) = 0
    THEN /\ Panic("paths.take().unwrap()")
         /\ UNCHANGED <<paths, writer>>
    ELSE LET matched == chain(paths[1])
             r == append(ar, matched, tgt)
         IN /\ paths' = None
            /\ ar' = r.ar
            /\ calls' = Append(calls, [pats |-> paths[1], src |-> matched, target |-> tgt])
            /\ IF r.ok THEN UNCHANGED <<pc, exit, diag>>
               ELSE Panic("path.file_name().unwrap()")

Flushed == exit' = "running"

\* if lowcase == "from" { from = true; continue; }
TokFrom(tok) ==
    /\ Take(tok, "from")
    /\ to_lowercase(tok) = t_from
    /\ from' = TRUE
    /\ UNCHANGED <<inputs, format_type, disk, paths, to, writer, exit, diag, pc, appendArgs>>

\* if to { append(.., Some(param)); to = false; continue; }
TokTarget(tok) ==
    /\ Take(tok, "target")
    /\ to_lowercase(tok) # t_from
    /\ to
    /\ Flush(Some(tok))
    /\ to' = IF Flushed THEN FALSE ELSE to
    /\ UNCHANGED <<inputs, format_type, disk, from, appendArgs>>

\* A mutant: "to" is recognised before the pending group is looked at.
TokTo_no_pending_check(tok) ==
    /\ Take(tok, "to")
    /\ to_lowercase(tok) # t_from
    /\ ~to
    /\ to_lowercase(tok) = t_to
    /\ to' = TRUE
    /\ from' = FALSE
    /\ UNCHANGED <<inputs, format_type, disk, paths, writer, exit, diag, pc, appendArgs>>

\* if paths.is_some() { if lowcase == "to" { to = true; from = false; continue; } .. }
TokTo(tok) ==
    /\ Take(tok, "to")
    /\ to_lowercase(tok) # t_from
    /\ ~to
    /\ Len(paths) > 0
    /\ to_lowercase(tok) = t_to
    /\ to' = TRUE
    /\ from' = FALSE
    /\ UNCHANGED <<inputs, format_type, disk, paths, writer, exit, diag, pc, appendArgs>>

\* A mutant: the pattern replaces the pending group instead of being chained.
TokChain_replaces(tok) ==
    /\ Take(tok, "chain")
    /\ to_lowercase(tok) # t_from
    /\ ~to
    /\ Len(paths) > 0
    /\ to_lowercase(tok) # t_to
    /\ from
    /\ paths' = Some(<<tok>>)
    /\ UNCHANGED <<inputs, format_type, disk, from, to, writer, exit, diag, pc, appendArgs>>

\* if paths.is_some() { .. if from { paths = paths.map(|src| src.chain(glob(param))); continue; } .. }
TokChain(tok) ==
    /\ Take(tok, "chain")
    /\ to_lowercase(tok) # t_from
    /\ ~to
    /\ Len(paths) > 0
    /\ to_lowercase(tok) # t_to
    /\ from
    /\ paths' = Some(Append(paths[1], tok))
    /\ UNCHANGED <<inputs, format_type, disk, from, to, writer, exit, diag, pc, appendArgs>>

\* if paths.is_some() { .. append(.., None); continue; }
TokFlush(tok) ==
    /\ Take(tok, "flush")
    /\ to_lowercase(tok) # t_from
    /\ ~to
    /\ Len(paths) > 0
    /\ to_lowercase(tok) # t_to
    /\ ~from
    /\ Flush(None)
    /\ UNCHANGED <<inputs, format_type, disk, from, to, appendArgs>>

\* paths = Some(Box::new(glob::glob(param).unwrap()));
TokStart(tok) ==
    /\ Take(tok, "start")
    /\ to_lowercase(tok) # t_from
    /\ ~to
    /\ Len(paths) = 0
    /\ paths' = Some(<<tok>>)
    /\ UNCHANGED <<inputs, format_type, disk, from, to, writer, exit, diag, pc, appendArgs>>

\* After the loop: the last flush, ar.finish() and the confirmation line.
\* clap requires at least one APPEND argument.
LoopEnd ==
    /\ pc = "loop"
    /\ Len(consumed) >= 1
    /\ branch' = "end"
    /\ IF Len(paths) > 0
       THEN /\ Flush(None)
            /\ IF Flushed
               THEN /\ disk' = "archive"
                    /\ exit' = "ok"
                    /\ pc' = "exit"
               ELSE UNCHANGED disk
       ELSE /\ disk' = "archive"
            /\ exit' = "ok"
            /\ pc' = "exit"
            /\ UNCHANGED <<paths, writer, diag>>
    /\ UNCHANGED <<inputs, format_type, consumed, from, to, appendArgs>>

\* extract; dst is what the destination path is, valid whether the archive
\* decodes.
Extract ==
    /\ pc = "extract"
    /\ \E dst \in {"absent", "file", "dir"}, valid \in BOOLEAN :
          IF dst = "file" THEN Panic("dst path exists")
          ELSE IF disk = "absent" \/ ~valid THEN Panic("unwrap on Err")
          ELSE /\ exit' = "ok"
               /\ pc' = "exit"
               /\ UNCHANGED diag
    /\ UNCHANGED <<inputs, format_type, disk, parser, writer, appendArgs>>

Next ==
    \/ Main
    \/ Create
    \/ CompressOnly
    \/ \E tok \in Tokens : TokFrom(tok)
    \/ \E tok \in Tokens : TokTarget(tok)
    \/ \E tok \in Tokens : TokTo(tok)
    \/ \E tok \in Tokens : TokChain(tok)
    \/ \E tok \in Tokens : TokFlush(tok)
    \/ \E tok \in Tokens : TokStart(tok)
    \/ LoopEnd
    \/ Extract

Spec == Init /\ [][Next]_vars

(***************************************************************************)
(* Properties of the invocation.                                           *)
(***************************************************************************)
IsFromKw(tok) == to_lowercase(tok) = t_from
IsToKw(tok) == to_lowercase(tok) = t_to
IsKeyword(tok) == IsFromKw(tok) \/ IsToKw(tok)

ArchiveLoop == subcommand = "c" /\ ~compression_only /\ pc = "loop" /\ exit = "running"
ArchiveDone == subcommand = "c" /\ ~compression_only /\ branch = "end" /\ exit = "ok"

\* C1: in archive mode a non-keyword token met while a group is pending (and
\* neither flag is set) flushes that group with no destination and starts a
\* new group from the token itself; hence a command line of plain patterns
\* p1 .. pn flushes every pi once, in order, without destination.
C1_PlainPatternsAllFlushed ==
    /\ (ArchiveLoop /\ branch = "flush") => paths = Some(<<consumed[Len(consumed)]>>)
    /\ (ArchiveDone /\ \A i \in 1..Len(consumed) : ~IsKeyword(consumed[i]))
          => /\ Len(calls) = Len(consumed)
             /\ \A i \in 1..Len(calls) :
                   calls[i].pats = <<consumed[i]>> /\ calls[i].target = None

\* C3: a "to" that no pending source group precedes aborts the run; it never
\* becomes a glob pattern of a source group.
C3_ToWithoutGroupNeverAPattern ==
    /\ Len(paths) > 0 => \A i \in 1..Len(paths[1]) : ~IsToKw(paths[1][i])
    /\ \A k \in 1..Len(calls) : \A i \in 1..Len(calls[k].pats) : ~IsToKw(calls[k].pats[i])

\* C4: compression-only create with two or more sources fails and leaves no
\* file at an archive path that did not exist before.
C4_TwoSourcesLeaveNoArchive ==
    (compression_only /\ diag = Some("more than one file")) => disk = "absent"

\* C5: create on an archive path that exists fails with "file path exists"
\* before anything is created, opened for writing or parsed: the file stays as
\* it was, no APPEND argument is taken and nothing reaches the tar builder.
C5_ExistingArchiveUntouched ==
    [][(subcommand = "c" /\ disk = "old")
          => /\ disk' = "old"
             /\ consumed' = <<>>
             /\ ar' = <<>>
             /\ calls' = <<>>
             /\ pc' \notin {"compress", "loop"}
             /\ (pc = "create" => exit' = "panic" /\ diag' = Some("file path exists"))]_vars

C5_Witness ==
    /\ subcommand = "c"
    /\ disk = "old"
    /\ format_type = Some("zstd")
    /\ diag = Some("file path exists")

\* C8: every detected error prints a diagnostic and ends the invocation
\* abnormally; an unknown format never ends it normally.
C8_ErrorsExitAbnormally ==
    (pc = "exit" /\ Len(diag) > 0) => exit = "panic"

\* C9: right after a token was consumed as the rename target and the mapping
\* flushed, no group is pending and both flags are false.
C9_ResetAfterRenameTarget ==
    (ArchiveLoop /\ branch = "target") => (Len(paths) = 0 /\ ~to /\ ~from)

\* C10: at every iteration of the token loop, awaiting the rename target
\* implies a pending source group, so taking the pending group for a flush
\* never finds it absent; a flushed group has left the pending slot.
C10_AwaitingImpliesPending ==
    /\ (ArchiveLoop /\ to) => Len(paths) > 0
    /\ diag # Some("paths.take().unwrap()")
    /\ branch \in {"target", "flush"} => Len(paths) = 0

C10_Witness ==
    /\ ArchiveLoop
    /\ to
    /\ from
    /\ Len(paths) > 0
    /\ Len(calls) > 0

(***************************************************************************)
(* The directive grammar of well-formed command lines, read off the token  *)
(* sequence alone: groups "p", "p from q1 .. qn" or "from q1 .. qn"        *)
(* (n >= 1), every group but possibly the last followed by "to <dest>".    *)
(***************************************************************************)
RECURSIVE PlainRun(_)
PlainRun(ts) ==
    IF Len(ts) = 0 THEN <<>>
    ELSE IF IsKeyword(Head(ts)) THEN <<>>
    ELSE <<Head(ts)>> \o PlainRun(Tail(ts))

Drop(ts, n) == SubSeq(ts, n + 1, Len(ts))

\* The patterns of the group at the head of ts and the tokens it spans;
\* n = 0 when no group starts there.
GroupAt(ts) ==
    IF IsToKw(ts[1]) THEN [pats |-> <<>>, n |-> 0]
    ELSE IF IsFromKw(ts[1])
    THEN LET qs == PlainRun(Tail(ts))
         IN [pats |-> qs, n |-> IF Len(qs) = 0 THEN 0 ELSE 1 + Len(qs)]
    ELSE IF Len(ts) >= 2 /\ IsFromKw(ts[2])
    THEN LET qs == PlainRun(Drop(ts, 2))
         IN [pats |-> <<ts[1]>> \o qs, n |-> IF Len(qs) = 0 THEN 0 ELSE 2 + Len(qs)]
    ELSE [pats |-> <<ts[1]>>, n |-> 1]

RECURSIVE Grammar(_)
Grammar(ts) ==
    IF Len(ts) = 0 THEN [ok |-> TRUE, groups |-> <<>>]
    ELSE LET g == GroupAt(ts)
             rest == Drop(ts, g.n)
         IN IF g.n = 0 THEN [ok |-> FALSE, groups |-> <<>>]
            ELSE IF Len(rest) = 0
            THEN [ok |-> TRUE, groups |-> <<[pats |-> g.pats, target |-> None]>>]
            ELSE IF Len(rest) >= 2 /\ IsToKw(rest[1]) /\ ~IsKeyword(rest[2])
            THEN LET more == Grammar(Drop(rest, 2))
                 IN [ok |-> more.ok,
                     groups |-> <<[pats |-> g.pats, target |-> Some(rest[2])]>> \o more.groups]
            ELSE [ok |-> FALSE, groups |-> <<>>]

\* The matches of a group's patterns, concatenated in token order.
RECURSIVE MatchesOf(_, _)
MatchesOf(pats, k) ==
    IF k = 0 THEN <<>> ELSE MatchesOf(pats, k - 1) \o glob(pats[k])

Mapping(groups) ==
    [i \in 1..Len(groups) |-> <<MatchesOf(groups[i].pats, Len(groups[i].pats)), groups[i].target>>]

\* The groups of a well-formed prefix that are complete: all of them, but for
\* a last group that still waits for more patterns or its "to".
Terminated(groups) ==
    IF Len(groups) > 0 /\ groups[Len(groups)].target = None
    THEN SubSeq(groups, 1, Len(groups) - 1)
    ELSE groups

Passed == [i \in 1..Len(calls) |-> <<calls[i].src, calls[i].target>>]

PathChars == {"x", "z", "Z", ".", "/"}

PathInputs ==
    SeqsUpTo(PathChars, MaxPathLen)
      \cup { <<"o", ".">> \o e : e \in PossibleValues }
      \cup { <<"o",".","T","a","r">>, <<"o",".","b","z">>, <<"o",".","x","/","o">>,
             <<"o",".","t","a","r",".","g","z">>, <<".","t","a","r">> }

FlagInputs ==
    {None} \cup { Some(f) : f \in PossibleValues }
           \cup { Some(<<"X","Z">>), Some(<<"T","g","Z">>), Some(<<"Z">>), Some(<<"z","S","T","D">>),
                  Some(<<>>), Some(<<"b","z">>), Some(<<"x","z","z">>) }

Idle ==
    /\ subcommand = "c"
    /\ compression_only = FALSE
    /\ disk = "absent"
    /\ format_type = None
    /\ consumed = <<>>
    /\ paths = None
    /\ from = FALSE
    /\ to = FALSE
    /\ branch = "none"
    /\ ar = <<>>
    /\ calls = <<>>
    /\ exit = "running"
    /\ diag = None

InitFormat ==
    /\ Idle
    /\ format_flag \in FlagInputs
    /\ archive \in PathInputs
    /\ pc = "resolve"
    /\ src = <<>>
    /\ target = None

Resolve ==
    /\ pc = "resolve"
    /\ format_type' = check_format_type(format_flag, archive)
    /\ pc' = "resolved"
    /\ UNCHANGED <<inputs, disk, parser, writer, exit, diag, appendArgs>>

SpecFormat == InitFormat /\ [][Resolve]_vars

\* The table of the codec selector, as pairs.
TablePairs ==
    { <<s_xz, "xz">>, <<s_gzip, "gzip">>, <<s_gz, "gzip">>, <<s_tgz, "gzip">>, <<s_z, "gzip">>,
      <<s_tar, "tar">>, <<s_zst, "zstd">>, <<s_zstd, "zstd">> }

\* The codec the table gives a name, compared case-insensitively; None is
\* UnknownFormat.
Lookup(name) ==
    LET hits == {pr \in TablePairs : pr[1] = to_lowercase(name)}
    IN IF hits = {} THEN None ELSE Some((CHOOSE pr \in hits : TRUE)[2])

LastDot(name) == Max({0} \cup {i \in 1..Len(name) : name[i] = "."})

\* The characters after the last "." of the final path segment; none when
\* the segment has no ".".
CharsAfterLastDot(path) ==
    LET f == file_name(path)
    IN IF Len(f) = 0 THEN None
       ELSE IF LastDot(f[1]) = 0 THEN None
       ELSE Some(SubSeq(f[1], LastDot(f[1]) + 1, Len(f[1])))

\* The same, but a segment whose only "." is its first character has none.
CharsAfterInnerDot(path) ==
    LET f == file_name(path)
    IN IF Len(f) = 0 THEN None
       ELSE IF LastDot(f[1]) <= 1 THEN None
       ELSE Some(SubSeq(f[1], LastDot(f[1]) + 1, Len(f[1])))

Resolved(ext) ==
    IF Len(format_flag) > 0 THEN Lookup(format_flag[1])
    ELSE IF Len(ext) = 0 THEN None
    ELSE Lookup(ext[1])

\* C6 as stated: the codec is decided by the flag alone when there is one, else
\* by the characters after the last "." of the final path segment, through
\* the table; anything else is UnknownFormat.
C6_ByFlagElseAfterLastDot ==
    pc = "resolved" =>
       /\ format_type = Resolved(CharsAfterLastDot(archive))
       /\ format_type \in {None} \cup {Some(c) : c \in Codecs}

\* C6 amended: as stated, but a final path segment whose only "." is its first
\* character (".xz") has no extension and resolves to UnknownFormat.
C6_ByFlagElseExtension ==
    pc = "resolved" =>
       /\ format_type = Resolved(CharsAfterInnerDot(archive))
       /\ format_type \in {None} \cup {Some(c) : c \in Codecs}

C6_Witness ==
    /\ pc = "resolved"
    /\ format_flag = Some(<<"b","z">>)
    /\ archive = <<"o",".","x","z">>
    /\ format_type = None

(***************************************************************************)
(* append on its own, over one matched path and an optional target.        *)
(***************************************************************************)
NameChars == {"a", "b", "/", "."}

\* glob yields no empty path and none that ends with a separator, the root
\* excepted.
GlobYields(s) == Len(s) > 0 /\ (ends_with(s, "/") => s = t_root)

InitAppend ==
    /\ Idle
    /\ format_flag = None
    /\ archive = a_tar
    /\ pc = "append"
    /\ \E s \in SeqsUpTo(NameChars, MaxNameLen) : GlobYields(s) /\ src = <<s>>
    /\ target \in {None} \cup {Some(d) : d \in SeqsUpTo(NameChars, MaxNameLen)}

AppendStep ==
    /\ pc = "append"
    /\ LET r == append(ar, src, target)
       IN /\ ar' = r.ar
          /\ IF r.ok
             THEN /\ pc' = "appended"
                  /\ UNCHANGED <<exit, diag>>
             ELSE Panic("path.file_name().unwrap()")
    /\ UNCHANGED <<inputs, format_type, disk, parser, calls, appendArgs>>

SpecAppend == InitAppend /\ [][AppendStep]_vars

\* The entry name of the data model: under a directory-like destination the
\* base name of the source, the destination itself when it names a file, the
\* source path verbatim without a destination.
NamedAs(s, d) ==
    IF Len(d) = 0 THEN s
    ELSE IF Len(d[1]) = 0 \/ ends_with(d[1], "/") THEN d[1] \o file_name(s)[1]
    ELSE d[1]

\* C7: the entry append writes for a matched path s is named d + basename(s)
\* under a directory-like destination d (for an s that has a base name), d
\* under any other destination, and s verbatim without a destination,
\* whatever s looks like.
C7_EntryNaming ==
    (/\ pc # "append"
     /\ Len(src) = 1
     /\ (Len(target) = 0 \/ ~target_is_dir(target[1]) \/ Len(file_name(src[1])) > 0))
       => /\ exit # "panic"
          /\ Len(ar) = 1
          /\ ar[1].name = NamedAs(src[1], target)

====
